---------------------------- MODULE Spec2Model ----------------------------
(***************************************************************************)
(* cyclo: per-file cyclomatic complexity of a C/C++ source tree.           *)
(*                                                                         *)
(* Three specifications over one set of variables:                         *)
(*   Spec        main's traversal loop (cyclo/src/main.rs) over a small    *)
(*               directory tree, calling FileParser::file_walk per entry;  *)
(*   SpecEngine  FileParser::get_file_complexity applied to syntax trees;  *)
(*   SpecExt     is_file_extension_valid / get_file_extension applied to   *)
(*               file names.                                               *)
(*                                                                         *)
(* A Rust String is a sequence of one-character strings, so that           *)
(* ends_with, starts_with, split("/") and join("/") are computed.          *)
(***************************************************************************)
EXTENDS Integers, Sequences, FiniteSets, TLC

VARIABLES
    root,               \* args.path, a path string
    fs,                 \* the entries below the root: [rel, kind]
    stack,              \* the walker: per open directory, the entries not yet yielded
    pc,                 \* main's position: "walk", "render", "done", "panicked"
    nlocs, ccs, labels, parents,   \* main's four parallel vectors
    handed,             \* history: entries given to FileParser::new / file_walk
    current,            \* the entry of the last loop iteration
    result,             \* what file_walk did in the last loop iteration
    filename,           \* FileParser.filename (SpecEngine, SpecExt)
    tree,               \* the syntax tree of the file (SpecEngine)
    epc,                \* position of the engine / extension run
    func_complexities,  \* get_file_complexity's vector
    cc,                 \* get_file_complexity's return value
    xvalid, xext,       \* is_file_extension_valid / get_file_extension results
    xwalk               \* file_walk's result for a readable file of that name

mainVars == <<root, fs, stack, pc, nlocs, ccs, labels, parents, handed, current,
              result>>
engineVars == <<tree, func_complexities, cc>>
extVars == <<xvalid, xext, xwalk>>
vars == <<mainVars, engineVars, extVars, filename, epc>>

-----------------------------------------------------------------------------
(* Bounds *)

\* longest file name drawn in SpecExt
MaxNameLen == 5
\* nesting depth of the statements drawn in SpecEngine
MaxNest == 2
\* top-level items of a multi-item translation unit drawn in SpecEngine
MaxItems == 3
\* entries below the root in the directory trees drawn in Spec
MaxEntries == 5

-----------------------------------------------------------------------------
(* Strings *)

ends_with(s, suffix) ==
    /\ Len(s) >= Len(suffix)
    /\ SubSeq(s, Len(s) - Len(suffix) + 1, Len(s)) = suffix

starts_with(s, prefix) ==
    /\ Len(s) >= Len(prefix)
    /\ SubSeq(s, 1, Len(prefix)) = prefix

\* str.split(sep): the pieces between separators; "" splits into [""]
RECURSIVE split(_, _)
split(s, sep) ==
    IF \A i \in DOMAIN s : s[i] # sep
    THEN <<s>>
    ELSE LET i == CHOOSE k \in DOMAIN s :
                      s[k] = sep /\ \A j \in 1..(k - 1) : s[j] # sep
         IN  <<SubSeq(s, 1, i - 1)>> \o split(SubSeq(s, i + 1, Len(s)), sep)

\* slice.join(sep)
RECURSIVE join(_, _)
join(v, sep) ==
    IF v = <<>> THEN <<>>
    ELSE IF Len(v) = 1 THEN v[1]
    ELSE v[1] \o <<sep>> \o join(Tail(v), sep)

\* Vec::pop
pop(v) == SubSeq(v, 1, Len(v) - 1)

\* Vec::contains
contains(v, x) == \E i \in DOMAIN v : v[i] = x

RECURSIVE SeqSum(_)
SeqSum(s) == IF s = <<>> THEN 0 ELSE Head(s) + SeqSum(Tail(s))

-----------------------------------------------------------------------------
(* File extensions: file_parser.rs *)

extensions == << <<".", "c">>, <<".", "c", "p", "p">>, <<".", "c", "c">>,
                 <<".", "c", "x", "x">> >>

is_file_extension_valid(file) ==
    \E n \in DOMAIN extensions : ends_with(file, extensions[n])

\* a mutant: the ".cc" and ".cxx" arms of the dispatch are forgotten
get_file_extension_CppOnly(name) ==
    IF ends_with(name, <<".", "c">>) THEN "c"
    ELSE IF ends_with(name, <<".", "c", "p", "p">>) THEN "cpp"
    ELSE ""

get_file_extension(name) ==
    IF ends_with(name, <<".", "c">>) THEN "c"
    ELSE IF is_file_extension_valid(name) THEN "cpp"
    ELSE ""

\* is_hidden, on entry.file_name()
is_hidden(file_name) == starts_with(file_name, <<".">>)

-----------------------------------------------------------------------------
(* Syntax trees: tree_sitter::Node, by kind and children *)

Node(k, ch) == [kind |-> k, children |-> ch]
Leaf(k) == Node(k, <<>>)

decision_statements ==
    {"if_statement", "for_statement", "while_statement", "switch_statement",
     "break_statement", "goto_statement"}

\* the && / || tokens among the children of a binary_expression (lines 104-110)
BinaryOps(node3) ==
    IF node3.kind = "binary_expression"
    THEN Cardinality({l \in DOMAIN node3.children :
                         node3.children[l].kind \in {"&&", "||"}})
    ELSE 0

\* lines 102-112
ParenOps(node2) ==
    IF node2.kind = "parenthesized_expression"
    THEN SeqSum([k \in DOMAIN node2.children |-> BinaryOps(node2.children[k])])
    ELSE 0

\* a mutant: nested blocks are not descended into
RECURSIVE parse_compound_statement_Flat(_)
parse_compound_statement_Flat(root_node) ==
    LET PerChild(node) ==
            (IF node.kind \in decision_statements THEN 1 ELSE 0)
            + SeqSum([j \in DOMAIN node.children |-> ParenOps(node.children[j])])
    IN  SeqSum([i \in DOMAIN root_node.children |->
                   PerChild(root_node.children[i])])

\* a mutant: a decision statement found as a grandchild (an unbraced body, a
\* statement of a case) is counted as well
RECURSIVE parse_compound_statement_Deep(_)
parse_compound_statement_Deep(root_node) ==
    LET PerGrandchild(node2) ==
            (IF node2.kind = "compound_statement"
             THEN parse_compound_statement_Deep(node2) ELSE 0)
            + (IF node2.kind \in decision_statements THEN 1 ELSE 0)
            + ParenOps(node2)
        PerChild(node) ==
            (IF node.kind \in decision_statements THEN 1 ELSE 0)
            + SeqSum([j \in DOMAIN node.children |->
                         PerGrandchild(node.children[j])])
    IN  SeqSum([i \in DOMAIN root_node.children |->
                   PerChild(root_node.children[i])])

RECURSIVE parse_compound_statement(_)
parse_compound_statement(root_node) ==
    LET PerGrandchild(node2) ==
            (IF node2.kind = "compound_statement"
             THEN parse_compound_statement(node2) ELSE 0)
            + ParenOps(node2)
        PerChild(node) ==
            (IF node.kind \in decision_statements THEN 1 ELSE 0)
            + SeqSum([j \in DOMAIN node.children |->
                         PerGrandchild(node.children[j])])
    IN  SeqSum([i \in DOMAIN root_node.children |->
                   PerChild(root_node.children[i])])

\* lines 176-185: one function's complexity
FunctionComplexity(node) ==
    SeqSum([j \in DOMAIN node.children |->
               IF node.children[j].kind = "compound_statement"
               THEN parse_compound_statement(node.children[j]) ELSE 0])

\* SelectSeq with the test written inline
RECURSIVE FunctionsOf(_)
FunctionsOf(nodes) ==
    IF nodes = <<>> THEN <<>>
    ELSE (IF Head(nodes).kind = "function_definition"
          THEN <<Head(nodes)>> ELSE <<>>) \o FunctionsOf(Tail(nodes))

\* a mutant: function definitions are collected at any depth under the root
RECURSIVE FunctionsUnder(_)
FunctionsUnder(nodes) ==
    IF nodes = <<>> THEN <<>>
    ELSE (IF Head(nodes).kind = "function_definition"
          THEN <<Head(nodes)>> ELSE FunctionsUnder(Head(nodes).children))
         \o FunctionsUnder(Tail(nodes))

TopLevelFunctions_AnyDepth(t) == FunctionsUnder(t.children)

\* lines 172-174: the function definitions get_file_complexity visits
TopLevelFunctions(t) == FunctionsOf(t.children)

\* lines 172-190
FuncComplexities(t) ==
    LET fns == TopLevelFunctions(t)
    IN  [i \in DOMAIN fns |-> FunctionComplexity(fns[i])]

None == [some |-> FALSE, val |-> 0]
Some(v) == [some |-> TRUE, val |-> v]

\* a mutant: the commented-out mean (lines 195-204) is returned
FileScore_Mean(fc) ==
    IF SeqSum(fc) = 0 THEN 0 ELSE SeqSum(fc) \div Len(fc)

\* line 193
FileScore(fc) == SeqSum(fc)

\* lines 138-207, after the file was read
get_file_complexity(name, t) ==
    IF get_file_extension(name) \in {"c", "cpp"}
    THEN Some(FileScore(FuncComplexities(t)))
    ELSE None


-----------------------------------------------------------------------------
(* FileParser::file_walk and main's loop body *)

\* lines 210-232; code_lines is what tokei reports for the file
get_file_nloc(name, code_lines) ==
    IF get_file_extension(name) \in {"c", "cpp"} THEN Some(code_lines) ELSE None

\* v[start..] of a Vec; a start beyond the end panics
SliceOk(v, start) == start <= Len(v)
Slice(v, start) == SubSeq(v, start + 1, Len(v))

\* lines 238-278. path is entry.path() as a string, depth is entry.depth();
\* is_dir, readable and content are what the file system answers to File::open
\* and read_to_end, and content is what the parser and tokei make of the bytes.
file_walk(name, path, depth, is_dir, readable, content) ==
    LET complexity == get_file_complexity(name, content.tree)
        nloc == get_file_nloc(name, content.nloc)
        full_path == split(path, "/")
        len == Len(full_path)
        failed(st) == [status |-> st, cc |-> 0, nloc |-> 0,
                       label |-> <<>>, parent |-> <<>>]
    IN  IF is_dir \/ ~readable THEN failed("Panic")
        ELSE IF ~complexity.some THEN failed("Err")
        ELSE IF ~nloc.some THEN failed("Err")
        ELSE IF ~SliceOk(pop(full_path), len - depth - 1) THEN failed("Panic")
        ELSE [status |-> "Ok", cc |-> complexity.val, nloc |-> nloc.val,
              label |-> join(Slice(full_path, len - depth - 1), "/"),
              parent |-> join(Slice(pop(full_path), len - depth - 1), "/")]

Vecs(n, c, l, p) == [nlocs |-> n, ccs |-> c, labels |-> l, parents |-> p]

\* a mutant: the parent of the file is not pushed
PushFileRecord_NoParent(v, r) ==
    Vecs(Append(v.nlocs, r.nloc), Append(v.ccs, r.cc), Append(v.labels, r.label),
         v.parents)

\* main.rs lines 50-57
PushFileRecord(v, r) ==
    Vecs(Append(v.nlocs, r.nloc), Append(v.ccs, r.cc), Append(v.labels, r.label),
         Append(v.parents, r.parent))

\* a mutant: the directory is looked up in parents, as the comment of line 81
\* words it, not in labels
DirectoryKnown_InParents(v, dir) == contains(v.parents, dir)

\* main.rs line 82
DirectoryKnown(v, dir) == contains(v.labels, dir)

\* a mutant: the arm for the emptied path (lines 89-90) is lost
PushPlaceholder_NoRootArm(v, dir, popped, start) ==
    Vecs(Append(v.nlocs, 0), Append(v.ccs, 0), Append(v.labels, dir),
         IF popped = <<>> THEN v.parents
         ELSE Append(v.parents, join(Slice(popped, start), "/")))

\* main.rs lines 83-94: popped is full_path after the pop of line 87
PushPlaceholder(v, dir, popped, start) ==
    Vecs(Append(v.nlocs, 0), Append(v.ccs, 0), Append(v.labels, dir),
         Append(v.parents,
                IF popped = <<>> THEN <<>> ELSE join(Slice(popped, start), "/")))

\* main.rs lines 78-96: n iterations are left
RECURSIVE ancestor_loop(_, _, _, _)
ancestor_loop(n, start, full_path, v) ==
    IF n = 0 THEN v
    ELSE LET dir == join(Slice(full_path, start), "/")
         IN  IF ~DirectoryKnown(v, dir)
             THEN ancestor_loop(n - 1, start, pop(full_path),
                                PushPlaceholder(v, dir, pop(full_path), start))
             ELSE ancestor_loop(n - 1, start, full_path, v)

\* main.rs lines 66-96
AddAncestors(path, depth, v) ==
    LET full_path == split(path, "/")
    IN  ancestor_loop(depth, Len(full_path) - depth - 1, pop(full_path), v)

-----------------------------------------------------------------------------
(* Syntax trees as tree-sitter-c / tree-sitter-cpp build them *)

Ident == Leaf("identifier")
Paren(e) == Node("parenthesized_expression", <<Leaf("("), e, Leaf(")")>>)
Bin(l, op, r) == Node("binary_expression", <<l, Leaf(op), r>>)
Call(arg) ==
    Node("call_expression",
         <<Ident, Node("argument_list", <<Leaf("("), arg, Leaf(")")>>)>>)
Block(stmts) == Node("compound_statement", <<Leaf("{")>> \o stmts \o <<Leaf("}")>>)
If(cond, body) == Node("if_statement", <<Leaf("if"), cond, body>>)
IfElse(cond, body, alt) ==
    Node("if_statement", <<Leaf("if"), cond, body, Leaf("else"), alt>>)
While(cond, body) == Node("while_statement", <<Leaf("while"), cond, body>>)
For(body) ==
    Node("for_statement",
         <<Leaf("for"), Leaf("("), Leaf(";"), Leaf(";"), Leaf(")"), body>>)
Case(stmts) ==
    Node("case_statement", <<Leaf("case"), Leaf("number_literal"), Leaf(":")>> \o stmts)
Switch(cond, body) == Node("switch_statement", <<Leaf("switch"), cond, body>>)
Do(body, cond) ==
    Node("do_statement", <<Leaf("do"), body, Leaf("while"), cond, Leaf(";")>>)
Break == Node("break_statement", <<Leaf("break"), Leaf(";")>>)
Goto == Node("goto_statement", <<Leaf("goto"), Leaf("statement_identifier"), Leaf(";")>>)
Return(e) == Node("return_statement", <<Leaf("return"), e, Leaf(";")>>)
ExprStmt(e) == Node("expression_statement", <<e, Leaf(";")>>)
Function(body) ==
    Node("function_definition",
         <<Leaf("primitive_type"),
           Node("function_declarator",
                <<Ident, Node("parameter_list", <<Leaf("("), Leaf(")")>>)>>),
           body>>)
Namespace(items) ==
    Node("namespace_definition",
         <<Leaf("namespace"), Ident,
           Node("declaration_list", <<Leaf("{")>> \o items \o <<Leaf("}")>>)>>)
PreprocIfdef(items) ==
    Node("preproc_ifdef", <<Leaf("#ifdef"), Ident>> \o items \o <<Leaf("#endif")>>)
Declaration == Node("declaration", <<Leaf("primitive_type"), Ident, Leaf(";")>>)
File(items) == Node("translation_unit", items)

\* (x)   (a && b)   (a && b && c)   (f(a || b))
CondX == Paren(Ident)
CondAnd == Paren(Bin(Ident, "&&", Ident))
CondAndAnd == Paren(Bin(Bin(Ident, "&&", Ident), "&&", Ident))
CondCall == Paren(Call(Bin(Ident, "||", Ident)))
CondOr == Paren(Bin(Ident, "||", Ident))

\* break;   return (a && b);   x;
Stmts0 == {Break, Return(CondAnd), ExprStmt(Ident)}

\* the statements that hold s one level down
Wrap(s) ==
    { If(CondX, Block(<<s, Goto>>)),          \* if (x) { s goto l; }
      If(CondAnd, s),                         \* if (a && b) s
      While(CondCall, Block(<<s>>)),          \* while (f(a || b)) { s }
      For(s),                                 \* for (;;) s
      Switch(CondX, Block(<<Case(<<s>>)>>)),  \* switch (x) { case 1: s }
      Block(<<s>>),                           \* { s }
      Do(Block(<<s>>), CondOr),               \* do { s } while (a || b);
      IfElse(CondAndAnd, Block(<<>>), s) }    \* if (a && b && c) { } else s

RECURSIVE Stmts(_)
Stmts(n) ==
    IF n = 0 THEN Stmts0
    ELSE Stmts0 \cup UNION {Wrap(s) : s \in Stmts(n - 1)}

\* void f(){ if (x) { while(y || z) { } } }
ScenarioBody == Block(<<If(CondX, Block(<<While(CondOr, Block(<<>>))>>))>>)
ScenarioFile == File(<<Function(ScenarioBody)>>)
\* void f(){ if (a && b) { } }
IfAndFile == File(<<Function(Block(<<If(CondAnd, Block(<<>>))>>))>>)
\* void f(){ if (x) { for (;;) { } } }
IfForFile == File(<<Function(Block(<<If(CondX, Block(<<For(Block(<<>>))>>))>>))>>)
\* an empty file
EmptyFile == File(<<>>)

SingleFunctionFiles == {File(<<Function(Block(<<s>>))>>) : s \in Stmts(MaxNest)}

Items ==
    { Function(Block(<<>>)),
      Function(ScenarioBody),
      Function(Block(<<Break>>)),
      Namespace(<<Function(ScenarioBody)>>),
      PreprocIfdef(<<Function(Block(<<Break>>))>>),
      Declaration }

MultiItemFiles ==
    {File(items) : items \in UNION {[1..k -> Items] : k \in 0..MaxItems}}

Trees ==
    SingleFunctionFiles \cup MultiItemFiles \cup {ScenarioFile, IfAndFile, IfForFile}

EngineNames == { <<"a", ".", "c">>, <<"b", ".", "c", "c">> }

\* every string of 1..MaxNameLen characters
Alphabet == {".", "c", "p", "x", "h", "C"}
AllNames == UNION {[1..k -> Alphabet] : k \in 1..MaxNameLen}

-----------------------------------------------------------------------------
(* SpecEngine: get_file_complexity on one parsed file *)

MainIdle ==
    /\ root = <<>> /\ fs = {} /\ stack = <<>> /\ pc = "idle"
    /\ nlocs = <<>> /\ ccs = <<>> /\ labels = <<>> /\ parents = <<>>
    /\ handed = {} /\ current = <<>> /\ result = "none"

InitEngine ==
    /\ MainIdle
    /\ filename \in EngineNames
    /\ tree \in Trees
    /\ epc = "parsed"
    /\ func_complexities = <<>>
    /\ cc = None
    /\ xvalid = FALSE /\ xext = "" /\ xwalk = "none"

GetFileComplexity ==
    /\ epc = "parsed"
    /\ func_complexities' = FuncComplexities(tree)
    /\ cc' = get_file_complexity(filename, tree)
    /\ epc' = "done"
    /\ UNCHANGED <<mainVars, extVars, filename, tree>>

NextEngine == GetFileComplexity

SpecEngine == InitEngine /\ [][NextEngine]_vars

-----------------------------------------------------------------------------
(* SpecExt: the eligibility filter and the language dispatch on one name *)

InitExt ==
    /\ MainIdle
    /\ filename \in AllNames
    /\ tree = EmptyFile
    /\ epc = "name"
    /\ func_complexities = <<>>
    /\ cc = None
    /\ xvalid = FALSE /\ xext = "" /\ xwalk = "none"

CheckExtension ==
    /\ epc = "name"
    /\ xvalid' = is_file_extension_valid(filename)
    /\ xext' = get_file_extension(filename)
    /\ xwalk' = file_walk(filename, filename, 0, FALSE, TRUE,
                          [tree |-> tree, nloc |-> 0]).status
    /\ epc' = "done"
    /\ UNCHANGED <<mainVars, engineVars, filename>>

NextExt == CheckExtension

SpecExt == InitExt /\ [][NextExt]_vars

-----------------------------------------------------------------------------
(* Positions in a syntax tree: a position is the sequence of child indices   *)
(* leading from a node down to one of its descendants.                       *)

RECURSIVE Positions(_)
Positions(n) ==
    {<<>>} \cup UNION {{<<i>> \o p : p \in Positions(n.children[i])} :
                          i \in DOMAIN n.children}

RECURSIVE NodeAt(_, _)
NodeAt(n, p) == IF p = <<>> THEN n ELSE NodeAt(n.children[p[1]], Tail(p))

KindAt(n, p) == NodeAt(n, p).kind
Up(p, k) == SubSeq(p, 1, Len(p) - k)

ShortCircuit == {"&&", "||"}

\* p is an && / || token directly inside a binary expression directly inside a
\* parenthesized expression
OpInParen(n, p) ==
    /\ Len(p) >= 2
    /\ KindAt(n, p) \in ShortCircuit
    /\ KindAt(n, Up(p, 1)) = "binary_expression"
    /\ KindAt(n, Up(p, 2)) = "parenthesized_expression"

\* the blocks the descent enters from body: body itself, and every compound
\* statement two levels below a block it enters
Entered(body) ==
    {p \in Positions(body) :
        /\ Len(p) % 2 = 0
        /\ \A k \in 1..(Len(p) \div 2) :
              KindAt(body, SubSeq(p, 1, 2 * k)) = "compound_statement"}

\* the decision statements standing directly in an entered block, plus the
\* operators one level inside a parenthesized expression that is a direct child
\* of a statement of an entered block
EnteredCount(body) ==
    Cardinality({p \in Positions(body) :
        /\ Len(p) >= 1
        /\ Up(p, 1) \in Entered(body)
        /\ KindAt(body, p) \in decision_statements})
    + Cardinality({p \in Positions(body) :
        /\ Len(p) >= 4
        /\ Up(p, 4) \in Entered(body)
        /\ OpInParen(body, p)})

\* every decision statement of the body, plus the operators one level inside a
\* condition of a decision statement
EveryDecisionCount(body) ==
    Cardinality({p \in Positions(body) :
        Len(p) >= 1 /\ KindAt(body, p) \in decision_statements})
    + Cardinality({p \in Positions(body) :
        /\ Len(p) >= 3
        /\ OpInParen(body, p)
        /\ KindAt(body, Up(p, 3)) \in decision_statements})

BodiesOf(fn) ==
    {j \in DOMAIN fn.children : fn.children[j].kind = "compound_statement"}

\* the root's children that are function definitions, in order
RootFunctions == FunctionsOf(tree.children)

RECURSIVE SumOverBodies(_, _, _)
SumOverBodies(fn, js, ideal) ==
    IF js = {} THEN 0
    ELSE LET j == CHOOSE x \in js : TRUE
         IN  (IF ideal THEN EveryDecisionCount(fn.children[j])
              ELSE EnteredCount(fn.children[j]))
             + SumOverBodies(fn, js \ {j}, ideal)

EngineDone == epc = "done" /\ pc = "idle" /\ tree.kind = "translation_unit"

-----------------------------------------------------------------------------
(* C2 *)

\* C2 as stated: the block computation runs once for each function_definition
\* node at any depth under the root, and the score is the sum of the results.
C2_AnyDepth ==
    (EngineDone /\ cc.some) =>
        /\ Len(func_complexities) =
               Cardinality({p \in Positions(tree) :
                   Len(p) >= 1 /\ KindAt(tree, p) = "function_definition"})
        /\ cc.val = SeqSum(func_complexities)

\* C2 amended: the block computation runs once for each function_definition
\* node that is a direct child of the root (a function inside a namespace or a
\* preprocessor block is not visited), and the score is the sum of the results.
C2_TopLevelOnly ==
    (EngineDone /\ cc.some) =>
        /\ Len(func_complexities) =
               Cardinality({i \in DOMAIN tree.children :
                   tree.children[i].kind = "function_definition"})
        /\ cc.val = SeqSum(func_complexities)

\* a file with a function at the root and another inside a namespace was scored
C2_Witness ==
    /\ EngineDone /\ cc.some
    /\ Len(func_complexities) = 1
    /\ \E i \in DOMAIN tree.children :
          tree.children[i].kind = "namespace_definition"
    /\ cc.val = 3

-----------------------------------------------------------------------------
(* C3 *)

\* C3 as stated: a function's value is the number of decision statements
\* anywhere in its body plus the && / || operators one level inside the
\* conditions of those statements.
C3_EveryDecisionCounted ==
    EngineDone =>
        \A i \in DOMAIN func_complexities :
            func_complexities[i] =
                SumOverBodies(RootFunctions[i], BodiesOf(RootFunctions[i]), TRUE)

\* C3 amended: a function's value is the number of decision statements that
\* stand directly in the body or in a block the descent enters (a compound
\* statement that is a direct child of a statement of an entered block), plus
\* the && / || operators one level inside a parenthesized expression that is a
\* direct child of a statement of an entered block.
C3_EnteredBlocksCounted ==
    EngineDone =>
        \A i \in DOMAIN func_complexities :
            func_complexities[i] =
                SumOverBodies(RootFunctions[i], BodiesOf(RootFunctions[i]), FALSE)

\* a body whose decision statements are not all counted: the two counts differ
C3_Witness ==
    /\ EngineDone
    /\ \E i \in DOMAIN func_complexities :
          /\ func_complexities[i] >= 2
          /\ func_complexities[i] <
                SumOverBodies(RootFunctions[i], BodiesOf(RootFunctions[i]), TRUE)

-----------------------------------------------------------------------------
(* Spec: main's loop over the walker, then the asserts before rendering *)

A_C == <<"a", ".", "c">>
B_CC == <<"b", ".", "c", "c">>
E_H == <<"e", ".", "h">>
F_HIDDEN == <<".", "f", ".", "c">>
G_UPPER == <<"g", ".", "C">>
DIR_S == <<"s">>
DIR_T == <<"t">>
DIR_HIDDEN == <<".", "h">>
DIR_U_C == <<"u", ".", "c">>

Entry(rel, kind) == [rel |-> rel, kind |-> kind]

\* the entries a directory tree below the root is drawn from
Universe ==
    { Entry(<<A_C>>, "file"), Entry(<<E_H>>, "file"), Entry(<<F_HIDDEN>>, "file"),
      Entry(<<G_UPPER>>, "file"),
      Entry(<<DIR_S>>, "dir"), Entry(<<DIR_S, A_C>>, "file"),
      Entry(<<DIR_S, B_CC>>, "file"),
      Entry(<<DIR_S, DIR_T>>, "dir"), Entry(<<DIR_S, DIR_T, A_C>>, "file"),
      Entry(<<DIR_HIDDEN>>, "dir"), Entry(<<DIR_HIDDEN, A_C>>, "file"),
      Entry(<<DIR_U_C>>, "dir") }

\* every entry but those directly below the root lies in a directory of the tree
FileSystems ==
    {t \in SUBSET Universe :
        /\ Cardinality(t) <= MaxEntries
        /\ \A e \in t : Len(e.rel) > 1 => Entry(pop(e.rel), "dir") \in t}

\* p   r/p   .
Roots == { <<"p">>, <<"r", "/", "p">>, <<".">> }

\* what the parser and tokei make of a file: an empty file, and the file
\* void f(){ if (x) { while(y || z) { } } }
SampleFiles == { [tree |-> EmptyFile, nloc |-> 0], [tree |-> ScenarioFile, nloc |-> 1] }

RootEntry == Entry(<<>>, "dir")

\* DirEntry::path as a string: the root joined with the names below it
PathOf(rel) == join(<<root>> \o rel, "/")

\* DirEntry::file_name: the last component; of a root such as "." the path itself
FileNameOf(rel) ==
    LET comps == split(PathOf(rel), "/") IN comps[Len(comps)]

ChildrenOf(rel) == {e \in fs : Len(e.rel) = Len(rel) + 1 /\ pop(e.rel) = rel}

\* the walker drops the directories it has exhausted
RECURSIVE Exhaust(_)
Exhaust(st) ==
    IF st # <<>> /\ st[Len(st)] = {} THEN Exhaust(pop(st)) ELSE st

Yielded(e) == [stack EXCEPT ![Len(stack)] = @ \ {e}]

Init ==
    /\ root \in Roots
    /\ fs \in FileSystems
    /\ stack = << {RootEntry} >>
    /\ pc = "walk"
    /\ nlocs = <<>> /\ ccs = <<>> /\ labels = <<>> /\ parents = <<>>
    /\ handed = {}
    /\ current = RootEntry
    /\ result = "none"
    /\ filename = <<>> /\ tree = EmptyFile /\ epc = "idle"
    /\ func_complexities = <<>> /\ cc = None
    /\ xvalid = FALSE /\ xext = "" /\ xwalk = "none"

\* main.rs line 41: filter_entry drops a hidden entry and does not descend
WalkerSkipsHidden(e) ==
    /\ pc = "walk" /\ stack # <<>>
    /\ e \in stack[Len(stack)]
    /\ is_hidden(FileNameOf(e.rel))
    /\ stack' = Exhaust(Yielded(e))
    /\ UNCHANGED <<root, fs, pc, nlocs, ccs, labels, parents, handed, current,
                   result>>
    /\ UNCHANGED <<engineVars, extVars, filename, epc>>

\* main.rs lines 41-97: one iteration of the loop, on the entry the walker
\* yields next; readable and content are the file system's answers
LoopIteration(e, readable, content) ==
    /\ pc = "walk" /\ stack # <<>>
    /\ e \in stack[Len(stack)]
    /\ ~is_hidden(FileNameOf(e.rel))
    /\ stack' = Exhaust(IF e.kind = "dir"
                        THEN Append(Yielded(e), ChildrenOf(e.rel))
                        ELSE Yielded(e))
    /\ current' = e
    /\ LET name == FileNameOf(e.rel)
           v == Vecs(nlocs, ccs, labels, parents)
           r == file_walk(name, PathOf(e.rel), Len(e.rel), e.kind = "dir",
                          readable, content)
           w == IF r.status = "Ok"
                THEN AddAncestors(PathOf(e.rel), Len(e.rel), PushFileRecord(v, r))
                ELSE v
       IN  IF ~is_file_extension_valid(name)
           THEN /\ result' = "ineligible"
                /\ UNCHANGED <<pc, nlocs, ccs, labels, parents, handed>>
           ELSE /\ handed' = handed \cup {e}
                /\ result' = r.status
                /\ pc' = IF r.status = "Panic" THEN "panicked" ELSE pc
                /\ nlocs' = w.nlocs /\ ccs' = w.ccs
                /\ labels' = w.labels /\ parents' = w.parents
    /\ UNCHANGED <<root, fs>>
    /\ UNCHANGED <<engineVars, extVars, filename, epc>>

\* main.rs lines 100-124: the three assert_eq, then the output is written
Render ==
    /\ pc = "walk" /\ stack = <<>>
    /\ pc' = IF /\ Len(nlocs) = Len(labels)
                /\ Len(labels) = Len(parents)
                /\ Len(parents) = Len(ccs)
             THEN "done" ELSE "assert_failed"
    /\ UNCHANGED <<root, fs, stack, nlocs, ccs, labels, parents, handed, current,
                   result>>
    /\ UNCHANGED <<engineVars, extVars, filename, epc>>

Next ==
    \/ \E e \in Universe \cup {RootEntry} : WalkerSkipsHidden(e)
    \/ \E e \in Universe \cup {RootEntry}, readable \in BOOLEAN,
          content \in SampleFiles : LoopIteration(e, readable, content)
    \/ Render

Spec == Init /\ [][Next]_vars

-----------------------------------------------------------------------------
(* C8 *)

\* no decision statement and no nested block anywhere in the function's bodies
PlainFunction(fn) ==
    \A j \in BodiesOf(fn) : \A p \in Positions(fn.children[j]) :
        Len(p) >= 1 =>
            /\ KindAt(fn.children[j], p) \notin decision_statements
            /\ KindAt(fn.children[j], p) # "compound_statement"

\* no && / || directly inside a parenthesized binary expression either
OperatorFree(fn) ==
    \A j \in BodiesOf(fn) : \A p \in Positions(fn.children[j]) :
        ~OpInParen(fn.children[j], p)

\* C8 as stated: the score is the plain sum of the per-function counts, a
\* function with no decision statement and no nested block contributes 0, and a
\* tree without function definitions scores Some(0).
C8_PlainFunctionScoresZero ==
    EngineDone =>
        /\ cc.some
        /\ cc.val = SeqSum(func_complexities)
        /\ RootFunctions = <<>> => cc.val = 0
        /\ \A i \in DOMAIN func_complexities :
              PlainFunction(RootFunctions[i]) => func_complexities[i] = 0

\* C8 amended: the score is the plain sum of the per-function counts (no +1 per
\* function, no mean); a function with no decision statement, no nested block
\* and no && / || directly inside a parenthesized expression contributes 0; a
\* tree without function definitions at its root scores Some(0).
C8_NoBaseline ==
    EngineDone =>
        /\ cc.some
        /\ cc.val = SeqSum(func_complexities)
        /\ RootFunctions = <<>> => cc.val = 0
        /\ \A i \in DOMAIN func_complexities :
              (PlainFunction(RootFunctions[i]) /\ OperatorFree(RootFunctions[i]))
                  => func_complexities[i] = 0
        /\ (\A i \in DOMAIN RootFunctions :
               PlainFunction(RootFunctions[i]) /\ OperatorFree(RootFunctions[i]))
                  => cc.val = 0

\* a file of two scored functions and an empty one: the empty one adds nothing
C8_Witness ==
    /\ EngineDone /\ cc.some
    /\ Len(func_complexities) = 3
    /\ \E i \in DOMAIN func_complexities :
          /\ PlainFunction(RootFunctions[i]) /\ OperatorFree(RootFunctions[i])
          /\ func_complexities[i] = 0
    /\ cc.val = 6

-----------------------------------------------------------------------------
(* C9 *)

\* the value of a block, in the words of the claim
RECURSIVE C9Value(_), C9Nested(_, _)
C9Nested(block, ps) ==
    IF ps = {} THEN 0
    ELSE LET p == CHOOSE x \in ps : TRUE
         IN  C9Value(NodeAt(block, p)) + C9Nested(block, ps \ {p})

C9Value(block) ==
    LET ps == Positions(block)
    IN  Cardinality({p \in ps :
            Len(p) = 1 /\ KindAt(block, p) \in decision_statements})
        + C9Nested(block, {p \in ps :
            Len(p) = 2 /\ KindAt(block, p) = "compound_statement"})
        + Cardinality({p \in ps : Len(p) = 4 /\ OpInParen(block, p)})

C9Function(fn) == SeqSum([j \in DOMAIN fn.children |->
                             IF j \in BodiesOf(fn) THEN C9Value(fn.children[j]) ELSE 0])

OneFunction(stmt) == File(<<Function(Block(<<stmt>>))>>)

\* C9: a block's value is 1 per direct child of a decision kind, plus the value
\* of each compound_statement grandchild, plus 1 per && / || token directly in a
\* binary_expression directly in a parenthesized_expression grandchild; tokens
\* on other paths add nothing.  void f(){ if (x) { while(y || z) { } } } is 3.
C9_BlockRule ==
    EngineDone =>
        /\ \A i \in DOMAIN func_complexities :
              func_complexities[i] = C9Function(RootFunctions[i])
        /\ tree = ScenarioFile => func_complexities = <<3>> /\ cc = Some(3)
        /\ tree = IfAndFile => func_complexities = <<2>>
        /\ tree = IfForFile => func_complexities = <<2>>
        \* if (a && b && c) { } else break;  the inner && adds nothing
        /\ tree = OneFunction(IfElse(CondAndAnd, Block(<<>>), Break))
              => func_complexities = <<2>>
        \* while (f(a || b)) { break; }  the || inside the call adds nothing
        /\ tree = OneFunction(While(CondCall, Block(<<Break>>)))
              => func_complexities = <<2>>

C9_Witness ==
    /\ EngineDone
    /\ tree = ScenarioFile
    /\ cc = Some(3)

-----------------------------------------------------------------------------
(* C10 *)

\* the name ends in the given characters
EndsIn2(n, a, b) == Len(n) >= 2 /\ n[Len(n) - 1] = a /\ n[Len(n)] = b
EndsIn3(n, a, b, c) == Len(n) >= 3 /\ n[Len(n) - 2] = a /\ EndsIn2(n, b, c)
EndsIn4(n, a, b, c, d) == Len(n) >= 4 /\ n[Len(n) - 3] = a /\ EndsIn3(n, b, c, d)

IsCName(n) == EndsIn2(n, ".", "c")
IsCppName(n) ==
    \/ EndsIn4(n, ".", "c", "p", "p")
    \/ EndsIn3(n, ".", "c", "c")
    \/ EndsIn4(n, ".", "c", "x", "x")

\* C10: the pre-filter accepts a name exactly when the dispatch answers "c" or
\* "cpp": .c is C, .cpp / .cc / .cxx are C++, anything else is "" and rejected;
\* file_walk does not fail on a name the pre-filter accepted.
C10_FilterAgreesWithDispatch ==
    (epc = "done" /\ pc = "idle" /\ filename # <<>> /\ xwalk # "none") =>
        /\ xvalid <=> (xext \in {"c", "cpp"})
        /\ IsCName(filename) => xext = "c"
        /\ IsCppName(filename) => xext = "cpp"
        /\ ~(IsCName(filename) \/ IsCppName(filename)) => (xext = "" /\ ~xvalid)
        /\ xvalid => xwalk = "Ok"
        /\ ~xvalid => xwalk = "Err"

\* a .cc name went through the filter and the dispatch
C10_Witness ==
    /\ epc = "done" /\ pc = "idle" /\ xwalk = "Ok"
    /\ EndsIn3(filename, ".", "c", "c")
    /\ xvalid /\ xext = "cpp"

-----------------------------------------------------------------------------
(* Claims about main's loop *)

\* root-relative label of an entry: the root's last component, then the names
\* below the root
LastOf(v) == v[Len(v)]
LabelOf(rel) == join(<<LastOf(split(root, "/"))>> \o rel, "/")

\* C1: in the final record set every record with a parent other than "" has
\* exactly one other record whose label is that parent.
C1_TreeShape ==
    pc = "done" =>
        /\ Len(parents) = Len(labels)
        /\ \A i \in DOMAIN parents :
              parents[i] # <<>> =>
                  Cardinality({j \in DOMAIN labels :
                                  j # i /\ labels[j] = parents[i]}) = 1

\* two files at different depths below a shared directory were recorded
C1_Witness ==
    /\ pc = "done"
    /\ Len(labels) >= 5
    /\ \E i, j \in DOMAIN labels :
          /\ labels[i] = LabelOf(<<DIR_S, A_C>>)
          /\ labels[j] = LabelOf(<<DIR_S, DIR_T, A_C>>)

\* C4: an entry for which file_walk fails leaves the four vectors as they were
\* and the loop goes on;
\* an entry for which it returns Ok adds one file record, the same element
\* position in each of the four vectors, and besides it only directory
\* placeholders.
C4_AllOrNothing ==
    [][ handed' # handed =>
          /\ result' # "Ok" => UNCHANGED <<nlocs, ccs, labels, parents>>
          /\ result' = "Err" => pc' = "walk"
          /\ result' = "Ok" =>
                LET k == Len(labels) + 1
                IN  /\ Len(nlocs) = Len(labels) /\ Len(ccs) = Len(labels)
                    /\ Len(parents) = Len(labels)
                    /\ Len(nlocs') >= k /\ Len(ccs') >= k
                    /\ Len(labels') >= k /\ Len(parents') >= k
                    /\ SubSeq(nlocs', 1, k - 1) = nlocs
                    /\ SubSeq(ccs', 1, k - 1) = ccs
                    /\ SubSeq(labels', 1, k - 1) = labels
                    /\ SubSeq(parents', 1, k - 1) = parents
                    /\ labels'[k] = LabelOf(current'.rel)
                    /\ parents'[k] = LabelOf(pop(current'.rel))
                    /\ <<ccs'[k], nlocs'[k]>> \in {<<0, 0>>, <<3, 1>>}
                    /\ Cardinality({j \in DOMAIN labels' :
                                       labels'[j] = labels'[k]}) = 1
                    /\ \A j \in (k + 1)..Len(labels') :
                          /\ nlocs'[j] = 0 /\ ccs'[j] = 0
                          /\ labels'[j] \in
                                 {LabelOf(d.rel) : d \in {x \in fs : x.kind = "dir"}}
                                 \cup {LabelOf(<<>>)}
      ]_vars

\* a file below a directory was analysed: its record and placeholders are in
C4_Witness ==
    /\ result = "Ok" /\ pc = "walk"
    /\ current.rel = <<DIR_S, B_CC>>
    /\ Len(labels) = 3
    /\ labels[1] = LabelOf(current.rel)

\* C5: an entry that passed the filter and cannot be read makes file_walk
\* return an error, and the run goes on.
C5_UnreadableIsAnError ==
    /\ result # "Panic"
    /\ pc # "panicked"

\* C6: the four vectors have the same length after every entry, and the asserts
\* before rendering do not fail.
C6_EqualLengths ==
    /\ pc \in {"walk", "done"} =>
          /\ Len(nlocs) = Len(labels)
          /\ Len(labels) = Len(parents)
          /\ Len(parents) = Len(ccs)
    /\ pc # "assert_failed"

\* placeholders were added and the run passed the asserts
C6_Witness ==
    /\ pc = "done"
    /\ Len(labels) >= 4
    /\ \E i \in DOMAIN labels : parents[i] = <<>>

\* the files the claim says are analysed: eligible suffix, and neither the name
\* nor a directory on the way from the root begins with "."
C7Eligible ==
    {e \in fs :
        /\ e.kind = "file"
        /\ IsCName(LastOf(e.rel)) \/ IsCppName(LastOf(e.rel))
        /\ \A i \in DOMAIN e.rel : e.rel[i][1] # "."}

\* C7: for every root, the entries handed to the File Analyzer are exactly the
\* eligible files reachable through non-hidden subdirectories.
C7_HandedExactlyEligibleFiles ==
    /\ handed \subseteq C7Eligible
    /\ pc = "done" => handed = C7Eligible

=============================================================================
